---- MODULE Spec2Model ----
(***************************************************************************)
(* Model of the Vani turn orchestrator, VaniGatewayStub                    *)
(* (src/vani/gateway/stub.py).                                             *)
(*                                                                         *)
(* process_audio is an async generator.  Every action below is one         *)
(* resumption of it, from one suspension point (a yield, or an await on    *)
(* the next element of a capability stream) to the next one.  The          *)
(* variables above the ruled line are the program's; the ones below it     *)
(* record what a call has done so far, so that properties can speak        *)
(* about it.                                                               *)
(*                                                                         *)
(* Text is a sequence of one-character strings.  An optional value         *)
(* (Python's None or a value) is a sequence of length 0 or 1.              *)
(***************************************************************************)
EXTENDS Integers, Sequences, FiniteSets, TLC

VARIABLES
    state,               \* self._state
    turn_id,             \* self._turn_id (the n-th uuid4 drawn is n)
    history,             \* self._history
    max_history_turns,   \* self.max_history_turns
    action_callback,     \* self.action_callback is not None
    llm,                 \* which LLM backend is wired in (self.llm)
    pc,                  \* where the current process_audio call is suspended
    final_transcript,    \* local of process_audio
    response_lang,       \* local of process_audio
    full_response_text,  \* local of process_audio
    \* ------------------------------------------------------------------
    events,              \* GatewayEvents yielded by the current/last call
    outcome,             \* how the current/last call ended
    sttSeen,             \* results the STT stream yielded in this call
    llmSeen,             \* results the LLM stream yielded in this call
    ttsSeen,             \* chunks the TTS stream yielded in this call
    invoked,             \* capabilities invoked in this call, in order
    args,                \* the language and text each of them was given
    actionCalls,         \* action-callback invocations in this call
    callbackLog,         \* the arguments of each of them, and whether it raised
    appended,            \* roles appended to the history in this call
    trimmed,             \* the trim branch was taken in this call
    calls,               \* process_audio calls started so far
    resets,              \* reset() calls so far
    uuids                \* uuid4 values drawn so far

\* MicRecorder and its utterance_stream (src/demo/live_cli.py)
VARIABLES
    q,                   \* self._q, the handoff queue
    stream,              \* self._stream is open: the capture callback may fire
    phase,               \* where the current utterance_stream is suspended
    silence_chunks,      \* local of utterance_stream
    min_speech_chunks,   \* local of utterance_stream
    pre_max,             \* local of utterance_stream
    max_wait,            \* local of utterance_stream
    pre_buffer,          \* local of utterance_stream
    waited,              \* local of utterance_stream
    streamed,            \* local of utterance_stream
    silent_count,        \* local of utterance_stream
    \* ------------------------------------------------------------------
    got,                 \* items the current/last utterance_stream has read
    yielded,             \* frames it has yielded
    frames,              \* frames the capture callback has enqueued so far
    turns                \* start() calls so far

\* executor threads of utterance_stream calls that were cancelled
VARIABLES
    orphans              \* threads still blocked in self._q.get

\* a TTS backend's synthesize_stream (src/vani/backends/sarvam.py, bhashini.py)
VARIABLES
    backend,             \* which TTS backend runs
    total,               \* len(audio_bytes)
    chunk_index,         \* i of the enumerate, for the next chunk
    chunks,              \* SynthesisResults yielded so far
    exhausted            \* the generator has returned

\* the user message built from a final transcript (stub.py:177-186)
VARIABLES
    transcript,          \* final_transcript
    user_content         \* user_content, once built

gateway == <<state, turn_id, history, max_history_turns, action_callback, llm,
             pc, final_transcript, response_lang, full_response_text,
             events, outcome, sttSeen, llmSeen, ttsSeen, invoked, args, actionCalls,
             callbackLog, appended, trimmed, calls, resets, uuids>>

recorder == <<q, stream, phase, silence_chunks, min_speech_chunks, pre_max, max_wait,
              pre_buffer, waited, streamed, silent_count, got, yielded, frames, turns>>

readers == <<orphans>>

synth == <<backend, total, chunk_index, chunks, exhausted>>

message == <<transcript, user_content>>

\* what the steps of each component leave alone
besidesGateway == <<recorder, readers, synth, message>>
besidesRecorder == <<gateway, readers, synth, message>>
besidesSynth == <<gateway, recorder, readers, message>>
besidesMessage == <<gateway, recorder, readers, synth>>
besidesCapture == <<gateway, synth, message>>

vars == <<gateway, recorder, readers, synth, message>>

\* ---------------------------------------------------------------- bounds

MaxM == 1            \* max_history_turns is drawn from 0..MaxM
MaxCalls == 2        \* process_audio calls in one behaviour
MaxResets == 2       \* reset() calls in one behaviour
MaxSTT == 2          \* results one STT stream yields
MaxLLM == 2          \* results one LLM stream yields
MaxTTS == 1          \* chunks one TTS stream yields
MaxFrames == 6       \* frames the capture callback enqueues in one behaviour
MaxTurns == 2        \* start() calls in one behaviour
MaxPre == 2          \* pre_max is drawn from 1..MaxPre
MaxWait == 3         \* max_wait is drawn from 1..MaxWait
MaxMinSpeech == 2    \* min_speech_chunks is drawn from 0..MaxMinSpeech
MaxSilence == 2      \* silence_chunks is drawn from 1..MaxSilence
MaxAudioBytes == 2600  \* len(audio_bytes) is drawn from 0..MaxAudioBytes
MaxText == 3         \* code points in a transcript text
MaxOrphans == 1      \* reader threads left blocked at a time
MaxQueue == 2        \* chunks waiting in the handoff queue
MaxSpans == 2        \* code-switch spans of a transcript

\* ------------------------------------------------------------ data types

None == <<>>
Some(x) == <<x>>

TurnState == {"IDLE", "LISTENING", "THINKING", "SPEAKING", "INTERRUPTED",
              "END_OF_TURN", "ERROR"}

TurnSignal(ev, tid) == [event |-> ev, turn_id |-> tid]

GatewayEvent(tr, sig, chunk, text, err) ==
    [transcript |-> tr, turn_signal |-> sig, synthesis_chunk |-> chunk,
     llm_text |-> text, error |-> err]

SignalEvent(sig) == GatewayEvent(None, Some(sig), None, None, None)
\* the result is forwarded marked as partial
TranscriptEvent_Partial(r) ==
    GatewayEvent(Some([r EXCEPT !.is_final = FALSE]), None, None, None, None)
TranscriptEvent(r) == GatewayEvent(Some(r), None, None, None, None)
\* a chunk event that also carries an llm_text
ChunkEvent_WithText(c) == GatewayEvent(None, None, Some(c), Some(<<>>), None)
ChunkEvent(c) == GatewayEvent(None, None, Some(c), None, None)
LlmTextEvent(t) == GatewayEvent(None, None, None, Some(t), None)

CodeSwitchSpan(start, end, lang) ==
    [start_char |-> start, end_char |-> end, language_bcp47 |-> lang]

TranscriptResult(text, fin, lang, roman, spans) ==
    [text |-> text, is_final |-> fin, language_bcp47 |-> lang,
     text_roman |-> roman, code_switch_spans |-> spans]

LLMResult(delta, call) == [text_delta |-> delta, tool_call |-> call]

SynthesisResult(idx, fin) == [chunk_index |-> idx, is_final |-> fin]

\* the results an STT stream may yield
STTResults ==
    { TranscriptResult(<<"a">>, FALSE, "ta", <<>>, <<>>),
      TranscriptResult(<<>>, TRUE, "ta", <<>>, <<>>),
      TranscriptResult(<<" ">>, TRUE, "ta", <<>>, <<>>),
      TranscriptResult(<<"a">>, TRUE, "ta", <<>>, <<>>),
      TranscriptResult(<<"a", "b">>, TRUE, "", <<"r">>, <<CodeSwitchSpan(0, 1, "en")>>) }

\* the arguments of a tool call: a dict, or a string that json.loads decodes
\* to the dict `json`, or rejects when `json` is "malformed"
ArgsDict == [kind |-> "dict", json |-> "D"]
ArgsString == [kind |-> "str", json |-> "D"]
ArgsMalformed == [kind |-> "str", json |-> "malformed"]
EmptyArgs == "{}"

CallWithString == [id |-> Some("c1"), name |-> "n1", arguments |-> ArgsString]
CallMalformed == [id |-> None, name |-> "n2", arguments |-> ArgsMalformed]
ToolCalls == {CallWithString, CallMalformed}

\* the results a free-running LLM stream may yield
LLMResults ==
    { LLMResult(<<"x">>, None),
      LLMResult(<<" ">>, None),
      LLMResult(<<>>, None) }
    \cup { LLMResult(<<>>, Some(CallWithString)),
           LLMResult(<<"y">>, Some(CallMalformed)) }

\* the first configured language hint, language_hints[0]
FirstHint == "hi"

SystemPrompt == <<"S">>
SystemEntry == [role |-> "system", content |-> SystemPrompt, tool_call_id |-> None]

\* -------------------------------------------------------- pure helpers

Whitespace == {" ", "\n", "\t"}

\* `not text`: the strip() is forgotten
IsBlank_NoStrip(text) == text = <<>>

\* not text.strip()
IsBlank(text) == \A i \in 1..Len(text) : text[i] \in Whitespace

\* the first k elements are kept instead of the last k
PyTail_Oldest(lst, k) == IF k >= Len(lst) THEN lst ELSE SubSeq(lst, 1, k)

\* lst[-k:] for k >= 0; Python reads -0 as 0, so lst[-0:] is the whole list
PyTail(lst, k) ==
    IF k = 0 \/ k >= Len(lst) THEN lst
    ELSE SubSeq(lst, Len(lst) - k + 1, Len(lst))

\* lst[a:b] for a, b >= 0
PySlice(lst, a, b) ==
    LET lo == IF a < Len(lst) THEN a ELSE Len(lst)
        hi == IF b < Len(lst) THEN b ELSE Len(lst)
    IN IF lo >= hi THEN <<>> ELSE SubSeq(lst, lo + 1, hi)

\* the code points a text may hold: "a" and " " encode to one byte in
\* UTF-8, "M" stands for a Devanagari letter, which encodes to three
Chars == {"a", "M"}
Utf8Len(c) == IF c = "M" THEN 3 ELSE 1

RECURSIVE ByteLen(_)
ByteLen(str) == IF str = <<>> THEN 0 ELSE Utf8Len(Head(str)) + ByteLen(Tail(str))

\* the span is cut by byte offsets of the UTF-8 encoding: the code points
\* whose bytes all lie within [start_char, end_char)
Quoted_ByteOffsets(content, sp) ==
    LET inside == {i \in 1..Len(content) :
                      /\ ByteLen(SubSeq(content, 1, i - 1)) >= sp.start_char
                      /\ ByteLen(SubSeq(content, 1, i)) <= sp.end_char}
    IN [i \in 1..Cardinality(inside) |->
           content[CHOOSE j \in inside : Cardinality({k \in inside : k < j}) = i - 1]]

\* user_content[s.start_char:s.end_char]
Quoted(content, sp) == PySlice(content, sp.start_char, sp.end_char)

\* ", ".join(f"'{...}' ({s.language_bcp47})" for s in spans)
RECURSIVE SwitchInfo(_, _)
SwitchInfo(content, spans) ==
    IF spans = <<>> THEN <<>>
    ELSE <<"'">> \o Quoted(content, Head(spans)) \o <<"' (", Head(spans).language_bcp47, ")">>
         \o (IF Tail(spans) = <<>> THEN <<>> ELSE <<", ">> \o SwitchInfo(content, Tail(spans)))

\* the message content built from the final transcript
UserContent(ft) ==
    LET withRoman == ft.text \o (IF ft.text_roman # <<>>
                                 THEN <<"\n[Transliteration: ">> \o ft.text_roman \o <<"]">>
                                 ELSE <<>>)
    IN withRoman \o (IF ft.code_switch_spans # <<>>
                     THEN <<"\n[Code-switch: ">>
                          \o SwitchInfo(withRoman, ft.code_switch_spans) \o <<"]">>
                     ELSE <<>>)

\* the system entry is not put back in front of the kept tail
Trim_NoSystem(h, m) ==
    IF Len(h) > m * 2 + 1 THEN PyTail(h, m * 2) ELSE h

\* the trim applied right after the user entry is appended
Trim(h, m) ==
    IF Len(h) > m * 2 + 1 THEN <<h[1]>> \o PyTail(h, m * 2) ELSE h

\* every entry is given the user role
Entry_UserRole(role, content) == [role |-> "user", content |-> content, tool_call_id |-> None]

\* a history entry without tool_call_id
Entry(role, content) == [role |-> role, content |-> content, tool_call_id |-> None]

\* the tool entry carries no call id
ToolEntry_NoId(content, call) ==
    [role |-> "tool", content |-> content, tool_call_id |-> Some("")]

\* the tool entry: the action's result and tool_call.get("id", "")
ToolEntry(content, call) ==
    [role |-> "tool", content |-> content,
     tool_call_id |-> IF call.id = None THEN Some("") ELSE call.id]

\* the first language hint is used whatever was detected
ResponseLang_HintOnly(ft) == FirstHint

\* response_lang = final_transcript.language_bcp47 or language_hints[0]
ResponseLang(ft) == IF ft.language_bcp47 # "" THEN ft.language_bcp47 ELSE FirstHint

\* json.dumps({"error": str(exc)})
ErrorJson == <<"{\"error\"}">>

\* the except clause keeps the raw payload
ParseArgs_KeepRaw(arguments) == arguments.json

\* _execute_action, the args handed to the callback: a dict as it is, a
\* string decoded by json.loads, {} when json.loads rejects it
ParseArgs(arguments) ==
    IF arguments.kind = "str" /\ arguments.json = "malformed" THEN EmptyArgs
    ELSE arguments.json

\* the exception's message is returned as it is, not as a JSON object
ExecuteAction_RawMessage(call, raises) == IF raises THEN <<"exc">> ELSE <<"R">>

\* _execute_action: the callback's result, or the JSON error object when
\* the callback raises
ExecuteAction(call, raises) == IF raises THEN ErrorJson ELSE <<"R">>

\* the signal is built before self._state is assigned, from the old state
Transition_Stale(new_state, tid) == SignalEvent(TurnSignal(state, tid))

\* the event yielded for _transition's return value, tid being self._turn_id
\* at the time of the call; the state change itself is in the actions
Transition(new_state, tid) == SignalEvent(TurnSignal(new_state, tid))

\* the LLM of tests/test_gateway_stub.py: text once the messages hold a
\* tool result, a tool call otherwise
StubText == <<"x">>
StubToolCall == [id |-> None, name |-> "enam_mandi_price", arguments |-> ArgsDict]
StubLLMResult(messages) ==
    IF \E i \in 1..Len(messages) : messages[i].role = "tool"
    THEN LLMResult(StubText, None)
    ELSE LLMResult(<<>>, Some(StubToolCall))

\* what the LLM stream may yield next
NextLLMResults ==
    IF llm = "toolstub"
    THEN (IF llmSeen = <<>> THEN {StubLLMResult(history)} ELSE {})
    ELSE LLMResults

Invoke(cap) ==
    IF \E i \in 1..Len(invoked) : invoked[i] = cap THEN invoked
    ELSE Append(invoked, cap)

\* what a capability is called with: the language (for STT the first of
\* the hints it gets) and, for TTS, the text
CallArgs(cap, lang, text) == [cap |-> cap, language |-> lang, text |-> text]

Pass(cap) ==
    IF \E i \in 1..Len(invoked) : invoked[i] = cap THEN args
    ELSE Append(args, CallArgs(cap,
                               IF cap = "stt" THEN FirstHint ELSE response_lang,
                               IF cap = "tts" THEN full_response_text ELSE <<>>))

\* every result replaces the retained transcript
Retained_Latest(kept, result) == Some(result)

\* the STT loop: a final result replaces the retained transcript, any
\* other result leaves it
Retained(kept, result) == IF result.is_final THEN Some(result) ELSE kept

\* ------------------------------------------------------------- actions

program == <<state, turn_id, history, max_history_turns, action_callback, llm>>
config == <<max_history_turns, action_callback, llm>>
locals == <<final_transcript, response_lang, full_response_text>>
counters == <<calls, resets, uuids>>

\* a VaniGatewayStub after construction
GatewayInit ==
    /\ state = "IDLE"
    /\ turn_id = 1
    /\ history = <<SystemEntry>>
    /\ max_history_turns \in 0..MaxM
    /\ action_callback \in BOOLEAN
    /\ llm \in {"free", "toolstub"}
    /\ llm = "toolstub" => action_callback
    /\ pc = "none"
    /\ final_transcript = None
    /\ response_lang = ""
    /\ full_response_text = <<>>
    /\ events = <<>>
    /\ outcome = "none"
    /\ sttSeen = <<>>
    /\ llmSeen = <<>>
    /\ ttsSeen = <<>>
    /\ invoked = <<>>
    /\ args = <<>>
    /\ actionCalls = 0
    /\ callbackLog = <<>>
    /\ appended = <<>>
    /\ trimmed = FALSE
    /\ calls = 0
    /\ resets = 0
    /\ uuids = 1

\* the audio-capture variables
SILENCE_THRESHOLD == 500

\* a queued chunk, with the RMS that lines 200-203 compute from its samples
Frame(n, rms) == [n |-> n, rms |-> rms]

\* the None that stop() enqueues
Sentinel == [n |-> 0, rms |-> 0]

\* the RMS values a frame may have: the threshold itself and just above it
RmsLevels == {SILENCE_THRESHOLD, SILENCE_THRESHOLD + 1}

\* a MicRecorder after construction, no utterance_stream running
RecorderInit ==
    /\ q = <<>>
    /\ stream = FALSE
    /\ phase = "none"
    /\ silence_chunks \in 1..MaxSilence
    /\ min_speech_chunks \in 0..MaxMinSpeech
    /\ pre_max \in 1..MaxPre
    /\ max_wait \in 1..MaxWait
    /\ pre_buffer = <<>>
    /\ waited = 0
    /\ streamed = 0
    /\ silent_count = 0
    /\ got = <<>>
    /\ yielded = <<>>
    /\ frames = 0
    /\ turns = 0
    /\ orphans = 0

thresholds == <<silence_chunks, min_speech_chunks, pre_max, max_wait>>

\* bytes per chunk
chunk_size == 1280

\* a synthesize_stream call that has received its audio
SynthInit ==
    /\ backend \in {"sarvam", "bhashini"}
    /\ total \in 0..MaxAudioBytes
    /\ chunk_index = 0
    /\ chunks = <<>>
    /\ exhausted = FALSE

\* the texts of at most n code points
Texts(n) == UNION {[1..k -> Chars] : k \in 0..n}

\* the spans with 0 <= start_char < end_char <= MaxText
Spans ==
    {CodeSwitchSpan(p[1], p[2], "en") :
        p \in {r \in (0..MaxText) \X (0..MaxText) : r[1] < r[2]}}

\* a final transcript about to be turned into the user message
MessageInit ==
    /\ \E text \in Texts(MaxText), roman \in {<<>>, <<"r">>},
          spans \in UNION {[1..k -> Spans] : k \in 0..MaxSpans} :
            transcript = TranscriptResult(text, TRUE, "hi", roman, spans)
    /\ user_content = None

\* each component at rest, for the specifications of the other ones
GatewayIdle == GatewayInit /\ config = <<MaxM, FALSE, "free">>
RecorderIdle == RecorderInit /\ thresholds = <<1, 1, 1, 1>>
SynthIdle == SynthInit /\ backend = "sarvam" /\ total = 0
MessageIdle ==
    /\ transcript = TranscriptResult(<<>>, TRUE, "", <<>>, <<>>)
    /\ user_content = None

\* the gateway on its own: the other components stay as constructed
Init ==
    /\ GatewayInit
    /\ RecorderIdle
    /\ SynthIdle
    /\ MessageIdle

\* the LISTENING transition is made but its signal is not yielded
Start_NoYield ==
    /\ pc = "none"
    /\ calls < MaxCalls
    /\ state' = "LISTENING"
    /\ events' = <<>>
    /\ pc' = "stt"
    /\ final_transcript' = None
    /\ response_lang' = ""
    /\ full_response_text' = <<>>
    /\ outcome' = "running"
    /\ sttSeen' = <<>>
    /\ llmSeen' = <<>>
    /\ ttsSeen' = <<>>
    /\ invoked' = <<>>
    /\ args' = <<>>
    /\ actionCalls' = 0
    /\ callbackLog' = <<>>
    /\ appended' = <<>>
    /\ trimmed' = FALSE
    /\ calls' = calls + 1
    /\ UNCHANGED <<turn_id, history, config, resets, uuids>>
    /\ UNCHANGED besidesGateway

\* process_audio is called and resumed for the first time: LISTENING
Start ==
    /\ pc = "none"
    /\ calls < MaxCalls
    /\ state' = "LISTENING"
    /\ events' = <<Transition("LISTENING", turn_id)>>
    /\ pc' = "stt"
    /\ final_transcript' = None
    /\ response_lang' = ""
    /\ full_response_text' = <<>>
    /\ outcome' = "running"
    /\ sttSeen' = <<>>
    /\ llmSeen' = <<>>
    /\ ttsSeen' = <<>>
    /\ invoked' = <<>>
    /\ args' = <<>>
    /\ actionCalls' = 0
    /\ callbackLog' = <<>>
    /\ appended' = <<>>
    /\ trimmed' = FALSE
    /\ calls' = calls + 1
    /\ UNCHANGED <<turn_id, history, config, resets, uuids>>
    /\ UNCHANGED besidesGateway

\* the STT stream yields a result
STTNext ==
    /\ pc = "stt"
    /\ Len(sttSeen) < MaxSTT
    /\ \E r \in STTResults :
        /\ events' = Append(events, TranscriptEvent(r))
        /\ final_transcript' = Retained(final_transcript, r)
        /\ sttSeen' = Append(sttSeen, r)
    /\ invoked' = Invoke("stt")
    /\ args' = Pass("stt")
    /\ UNCHANGED <<program, pc, response_lang, full_response_text, outcome,
                   llmSeen, ttsSeen, actionCalls, callbackLog, appended, trimmed, counters>>
    /\ UNCHANGED besidesGateway

\* the STT stream ends: short-circuit to IDLE, or THINKING
STTEnd ==
    /\ pc = "stt"
    /\ invoked' = Invoke("stt")
    /\ args' = Pass("stt")
    /\ IF final_transcript = None \/ IsBlank(final_transcript[1].text)
       THEN /\ state' = "IDLE"
            /\ events' = Append(events, Transition("IDLE", turn_id))
            /\ pc' = "none"
            /\ outcome' = "short_stt"
       ELSE /\ state' = "THINKING"
            /\ events' = Append(events, Transition("THINKING", turn_id))
            /\ pc' = "thinking"
            /\ outcome' = outcome
    /\ UNCHANGED <<turn_id, history, config, locals, sttSeen, llmSeen, ttsSeen,
                   actionCalls, callbackLog, appended, trimmed, counters>>
    /\ UNCHANGED besidesGateway

\* a capability stream raises and is opened again
Raise_Retry(at, cap) ==
    /\ pc = at
    /\ invoked' = Append(Invoke(cap), cap)
    /\ args' = Pass(cap)
    /\ UNCHANGED <<program, pc, locals, events, outcome, sttSeen, llmSeen, ttsSeen,
                   actionCalls, callbackLog, appended, trimmed, counters>>
    /\ UNCHANGED besidesGateway

\* a capability stream raises: nothing in process_audio catches it, the
\* exception leaves the generator and the call is over
Raise(at, cap) ==
    /\ pc = at
    /\ invoked' = Invoke(cap)
    /\ args' = Pass(cap)
    /\ pc' = "none"
    /\ outcome' = "raised"
    /\ UNCHANGED <<program, locals, events, sttSeen, llmSeen, ttsSeen,
                   actionCalls, callbackLog, appended, trimmed, counters>>
    /\ UNCHANGED besidesGateway

STTRaise == Raise("stt", "stt")

\* resumed after THINKING: the user entry is appended, the history trimmed
\* and the LLM stream opened
ThinkResume ==
    /\ pc = "thinking"
    /\ LET withUser == Append(history, Entry("user", UserContent(final_transcript[1])))
       IN /\ history' = Trim(withUser, max_history_turns)
          /\ trimmed' = (Len(withUser) > max_history_turns * 2 + 1)
    /\ appended' = Append(appended, "user")
    /\ response_lang' = ResponseLang(final_transcript[1])
    /\ full_response_text' = <<>>
    /\ invoked' = Invoke("llm")
    /\ args' = Append(args, CallArgs("llm", response_lang', <<>>))
    /\ pc' = "llm"
    /\ UNCHANGED <<state, turn_id, config, final_transcript, events, outcome,
                   sttSeen, llmSeen, ttsSeen, actionCalls, callbackLog, counters>>
    /\ UNCHANGED besidesGateway

\* the LLM stream yields a result: a tool call is executed and its result
\* appended, otherwise a text delta is accumulated
LLMNext ==
    /\ pc = "llm"
    /\ Len(llmSeen) < MaxLLM
    /\ \E r \in NextLLMResults, raises \in BOOLEAN :
        /\ llmSeen' = Append(llmSeen, r)
        /\ IF r.tool_call # None /\ action_callback
           THEN /\ history' = Append(history,
                        ToolEntry(ExecuteAction(r.tool_call[1], raises), r.tool_call[1]))
                /\ actionCalls' = actionCalls + 1
                /\ callbackLog' = Append(callbackLog,
                        [name |-> r.tool_call[1].name,
                         args |-> ParseArgs(r.tool_call[1].arguments),
                         raised |-> raises])
                /\ appended' = Append(appended, "tool")
                /\ UNCHANGED full_response_text
           ELSE /\ ~raises
                /\ full_response_text' =
                       IF r.text_delta # <<>> THEN full_response_text \o r.text_delta
                       ELSE full_response_text
                /\ UNCHANGED <<history, actionCalls, callbackLog, appended>>
    /\ UNCHANGED <<state, turn_id, config, pc, final_transcript, response_lang,
                   events, outcome, sttSeen, ttsSeen, invoked, args, trimmed, counters>>
    /\ UNCHANGED besidesGateway

\* the LLM stream ends: short-circuit to IDLE on an empty reply, otherwise
\* the assistant entry is appended and llm_text yielded
LLMEnd ==
    /\ pc = "llm"
    /\ llm = "toolstub" => Len(llmSeen) = 1
    /\ IF IsBlank(full_response_text)
       THEN /\ state' = "IDLE"
            /\ events' = Append(events, Transition("IDLE", turn_id))
            /\ pc' = "none"
            /\ outcome' = "short_llm"
            /\ UNCHANGED <<history, appended>>
       ELSE /\ history' = Append(history, Entry("assistant", full_response_text))
            /\ appended' = Append(appended, "assistant")
            /\ events' = Append(events, LlmTextEvent(full_response_text))
            /\ pc' = "llm_text"
            /\ UNCHANGED <<state, outcome>>
    /\ UNCHANGED <<turn_id, config, locals, sttSeen, llmSeen, ttsSeen, invoked, args,
                   actionCalls, callbackLog, trimmed, counters>>
    /\ UNCHANGED besidesGateway

LLMRaise == llm = "free" /\ Raise("llm", "llm")

\* SPEAKING is yielded twice
SpeakResume_Twice ==
    /\ pc = "llm_text"
    /\ state' = "SPEAKING"
    /\ events' = events \o <<Transition("SPEAKING", turn_id), Transition("SPEAKING", turn_id)>>
    /\ pc' = "tts"
    /\ UNCHANGED <<turn_id, history, config, locals, outcome, sttSeen, llmSeen,
                   ttsSeen, invoked, args, actionCalls, callbackLog, appended, trimmed, counters>>
    /\ UNCHANGED besidesGateway

\* resumed after llm_text: SPEAKING
SpeakResume ==
    /\ pc = "llm_text"
    /\ state' = "SPEAKING"
    /\ events' = Append(events, Transition("SPEAKING", turn_id))
    /\ pc' = "tts"
    /\ UNCHANGED <<turn_id, history, config, locals, outcome, sttSeen, llmSeen,
                   ttsSeen, invoked, args, actionCalls, callbackLog, appended, trimmed, counters>>
    /\ UNCHANGED besidesGateway

\* the TTS stream yields a chunk
TTSNext ==
    /\ pc = "tts"
    /\ Len(ttsSeen) < MaxTTS
    /\ \E fin \in BOOLEAN :
        LET c == SynthesisResult(Len(ttsSeen), fin)
        IN /\ events' = Append(events, ChunkEvent(c))
           /\ ttsSeen' = Append(ttsSeen, c)
    /\ invoked' = Invoke("tts")
    /\ args' = Pass("tts")
    /\ UNCHANGED <<program, pc, locals, outcome, sttSeen, llmSeen, actionCalls, callbackLog,
                   appended, trimmed, counters>>
    /\ UNCHANGED besidesGateway

\* the TTS stream ends: a new turn id is drawn, then END_OF_TURN
TTSEnd ==
    /\ pc = "tts"
    /\ invoked' = Invoke("tts")
    /\ args' = Pass("tts")
    /\ uuids' = uuids + 1
    /\ turn_id' = uuids'
    /\ state' = "END_OF_TURN"
    /\ events' = Append(events, Transition("END_OF_TURN", turn_id'))
    /\ pc' = "eot"
    /\ UNCHANGED <<history, config, locals, outcome, sttSeen, llmSeen, ttsSeen,
                   actionCalls, callbackLog, appended, trimmed, calls, resets>>
    /\ UNCHANGED besidesGateway

TTSRaise == Raise("tts", "tts")

\* the generator ends without the last transition
Finish_NoTransition ==
    /\ pc = "eot"
    /\ pc' = "none"
    /\ outcome' = "success"
    /\ UNCHANGED <<state, turn_id, history, config, locals, events, sttSeen, llmSeen,
                   ttsSeen, invoked, args, actionCalls, callbackLog, appended, trimmed, counters>>
    /\ UNCHANGED besidesGateway

\* resumed after END_OF_TURN: the state is set to IDLE, the signal that
\* _transition returns is dropped, and the generator is exhausted
Finish ==
    /\ pc = "eot"
    /\ state' = "IDLE"
    /\ pc' = "none"
    /\ outcome' = "success"
    /\ UNCHANGED <<turn_id, history, config, locals, events, sttSeen, llmSeen,
                   ttsSeen, invoked, args, actionCalls, callbackLog, appended, trimmed, counters>>
    /\ UNCHANGED besidesGateway

\* the consumer stops iterating a suspended call and never resumes it
Abandon ==
    /\ pc # "none"
    /\ pc' = "none"
    /\ outcome' = "abandoned"
    /\ UNCHANGED <<program, locals, events, sttSeen, llmSeen, ttsSeen, invoked, args,
                   actionCalls, callbackLog, appended, trimmed, counters>>
    /\ UNCHANGED besidesGateway

\* reset() that leaves the state as it was
Reset_KeepsState ==
    /\ pc = "none"
    /\ resets < MaxResets
    /\ history' = <<SystemEntry>>
    /\ uuids' = uuids + 1
    /\ turn_id' = uuids'
    /\ resets' = resets + 1
    /\ UNCHANGED <<state, config, pc, locals, events, outcome, sttSeen, llmSeen,
                   ttsSeen, invoked, args, actionCalls, callbackLog, appended, trimmed, calls>>
    /\ UNCHANGED besidesGateway

\* reset(), called between process_audio calls
Reset ==
    /\ pc = "none"
    /\ resets < MaxResets
    /\ history' = <<SystemEntry>>
    /\ state' = "IDLE"
    /\ uuids' = uuids + 1
    /\ turn_id' = uuids'
    /\ resets' = resets + 1
    /\ UNCHANGED <<config, pc, locals, events, outcome, sttSeen, llmSeen,
                   ttsSeen, invoked, args, actionCalls, callbackLog, appended, trimmed, calls>>
    /\ UNCHANGED besidesGateway

Next ==
    \/ Start
    \/ STTNext
    \/ STTEnd
    \/ STTRaise
    \/ ThinkResume
    \/ LLMNext
    \/ LLMEnd
    \/ LLMRaise
    \/ SpeakResume
    \/ TTSNext
    \/ TTSEnd
    \/ TTSRaise
    \/ Finish
    \/ Abandon
    \/ Reset

Spec == Init /\ [][Next]_vars

\* --------------------------------------------- a capability that stalls

\* a capability stream never yields its next element: process_audio stays
\* suspended at the async for, which has no timeout around it
Stall(at, cap) ==
    /\ pc = at
    /\ invoked' = Invoke(cap)
    /\ args' = Pass(cap)
    /\ pc' = "stalled"
    /\ UNCHANGED <<program, locals, events, outcome, sttSeen, llmSeen, ttsSeen,
                   actionCalls, callbackLog, appended, trimmed, counters>>
    /\ UNCHANGED besidesGateway

STTStall == Stall("stt", "stt")
LLMStall == Stall("llm", "llm")
TTSStall == Stall("tts", "tts")

\* the steps process_audio takes when it is resumed
Resume ==
    \/ STTNext
    \/ STTEnd
    \/ STTRaise
    \/ ThinkResume
    \/ LLMNext
    \/ LLMEnd
    \/ LLMRaise
    \/ SpeakResume
    \/ TTSNext
    \/ TTSEnd
    \/ TTSRaise
    \/ Finish

InitStall ==
    /\ Init
    /\ config = <<MaxM, TRUE, "free">>

NextStall ==
    \/ Start
    \/ Resume
    \/ STTStall
    \/ LLMStall
    \/ TTSStall

\* a consumer that keeps iterating: process_audio is resumed whenever it can be
SpecStall == InitStall /\ [][NextStall]_vars /\ WF_vars(Resume)

\* ------------------------------------- the gateway on a failing STT backend

\* the text the STT backends put in a transcript when a request fails:
\* "[STT_ERROR: ...]" (Sarvam), "[BHASHINI_ERROR: ...]" (Bhashini)
ErrorText == <<"[STT_ERROR: exc]">>

\* the result the except clause of transcribe_stream yields
FailureResult == TranscriptResult(ErrorText, TRUE, FirstHint, <<>>, <<>>)

\* the backend has caught an exception in this call
Failed == \E i \in 1..Len(sttSeen) : sttSeen[i] = FailureResult

\* the STT stream yields a result of the service
STTServed == ~Failed /\ STTNext

\* the STT backend catches an exception and yields it as a final transcript,
\* its last result
STTBackendFail ==
    /\ pc = "stt"
    /\ ~Failed
    /\ Len(sttSeen) < MaxSTT
    /\ events' = Append(events, TranscriptEvent(FailureResult))
    /\ final_transcript' = Retained(final_transcript, FailureResult)
    /\ sttSeen' = Append(sttSeen, FailureResult)
    /\ invoked' = Invoke("stt")
    /\ args' = Pass("stt")
    /\ UNCHANGED <<program, pc, response_lang, full_response_text, outcome,
                   llmSeen, ttsSeen, actionCalls, callbackLog, appended, trimmed, counters>>
    /\ UNCHANGED besidesGateway

InitFail ==
    /\ Init
    /\ config = <<MaxM, FALSE, "free">>

NextFail ==
    \/ Start
    \/ STTServed
    \/ STTBackendFail
    \/ STTEnd
    \/ ThinkResume
    \/ LLMNext
    \/ LLMEnd
    \/ SpeakResume
    \/ TTSNext
    \/ TTSEnd
    \/ Finish

SpecFail == InitFail /\ [][NextFail]_vars

\* ------------------------------------------- MicRecorder.utterance_stream

\* the threshold test takes the RMS at the threshold for speech
IsSpeech_Inclusive(rms) == rms >= SILENCE_THRESHOLD

\* rms > SILENCE_THRESHOLD
IsSpeech(rms) == rms > SILENCE_THRESHOLD

\* the chunk is appended and nothing is popped
Buffered_NoPop(buf, chunk) == Append(buf, chunk)

\* the chunk is appended to pre_buffer, the oldest one popped beyond pre_max
Buffered(buf, chunk) ==
    IF Len(buf) + 1 > pre_max THEN Tail(Append(buf, chunk)) ELSE Append(buf, chunk)

\* silent_count is not reset by a chunk above the threshold
NextSilentCount_NoReset(count, nstreamed, rms) ==
    IF nstreamed >= min_speech_chunks /\ ~IsSpeech(rms) THEN count + 1 ELSE count

\* silent_count after a streamed chunk
NextSilentCount(count, nstreamed, rms) ==
    IF IsSpeech(rms) THEN 0
    ELSE IF nstreamed >= min_speech_chunks THEN count + 1
    ELSE count

\* the gateway on its own configuration, idle, and a recorder
InitSeg ==
    /\ GatewayIdle
    /\ RecorderInit
    /\ SynthIdle
    /\ MessageIdle

\* recorder.start(): the queue is drained and the input stream opened
start ==
    /\ ~stream
    /\ phase \in {"none", "ended"}
    /\ turns < MaxTurns
    /\ q' = <<>>
    /\ stream' = TRUE
    /\ phase' = "none"
    /\ turns' = turns + 1
    /\ UNCHANGED <<thresholds, pre_buffer, waited, streamed, silent_count, got,
                   yielded, frames>>
    /\ UNCHANGED besidesRecorder

\* the capture thread delivers a chunk
callback ==
    /\ stream
    /\ frames < MaxFrames
    /\ frames' = frames + 1
    /\ \E rms \in RmsLevels : q' = Append(q, Frame(frames', rms))
    /\ UNCHANGED <<stream, phase, thresholds, pre_buffer, waited, streamed,
                   silent_count, got, yielded, turns>>
    /\ UNCHANGED besidesRecorder

\* recorder.stop() that closes the input stream only
stop_NoSentinel ==
    /\ stream
    /\ stream' = FALSE
    /\ UNCHANGED <<q, phase, thresholds, pre_buffer, waited, streamed, silent_count,
                   got, yielded, frames, turns>>
    /\ UNCHANGED besidesRecorder

\* recorder.stop(): the input stream is closed and the sentinel enqueued
stop ==
    /\ stream
    /\ stream' = FALSE
    /\ q' = Append(q, Sentinel)
    /\ UNCHANGED <<phase, thresholds, pre_buffer, waited, streamed, silent_count,
                   got, yielded, frames, turns>>
    /\ UNCHANGED besidesRecorder

\* utterance_stream() is resumed for the first time, up to its first get
UtteranceBegin ==
    /\ phase = "none"
    /\ turns >= 1
    /\ phase' = "phase1"
    /\ pre_buffer' = <<>>
    /\ waited' = 0
    /\ streamed' = 0
    /\ silent_count' = 0
    /\ got' = <<>>
    /\ yielded' = <<>>
    /\ UNCHANGED <<q, stream, thresholds, frames, turns>>
    /\ UNCHANGED besidesRecorder

\* phase 1, one iteration: a chunk is taken from the queue and buffered; on
\* speech the buffer is yielded and phase 2 entered
AwaitSpeech ==
    /\ phase = "phase1"
    /\ q # <<>>
    /\ q' = Tail(q)
    /\ got' = Append(got, Head(q))
    /\ LET chunk == Head(q)
       IN IF chunk = Sentinel
          THEN /\ phase' = "ended"
               /\ UNCHANGED <<pre_buffer, waited, streamed, silent_count, yielded>>
          ELSE /\ waited' = waited + 1
               /\ IF IsSpeech(chunk.rms)
                  THEN /\ yielded' = yielded \o Buffered(pre_buffer, chunk)
                       /\ pre_buffer' = <<>>
                       /\ streamed' = Len(pre_buffer')
                       /\ silent_count' = 0
                       /\ phase' = "phase2"
                  ELSE /\ pre_buffer' = Buffered(pre_buffer, chunk)
                       /\ phase' = IF waited' >= max_wait THEN "ended" ELSE "phase1"
                       /\ UNCHANGED <<streamed, silent_count, yielded>>
    /\ UNCHANGED <<stream, thresholds, frames, turns>>
    /\ UNCHANGED besidesRecorder

\* phase 2, one iteration: a chunk is taken from the queue, yielded and
\* counted
StreamChunk ==
    /\ phase = "phase2"
    /\ q # <<>>
    /\ q' = Tail(q)
    /\ got' = Append(got, Head(q))
    /\ LET chunk == Head(q)
       IN IF chunk = Sentinel
          THEN /\ phase' = "ended"
               /\ UNCHANGED <<streamed, silent_count, yielded>>
          ELSE /\ yielded' = Append(yielded, chunk)
               /\ streamed' = streamed + 1
               /\ silent_count' = NextSilentCount(silent_count, streamed', chunk.rms)
               /\ phase' = IF /\ ~IsSpeech(chunk.rms)
                              /\ streamed' >= min_speech_chunks
                              /\ silent_count' >= silence_chunks
                           THEN "ended" ELSE "phase2"
    /\ UNCHANGED <<stream, thresholds, pre_buffer, waited, frames, turns>>
    /\ UNCHANGED besidesRecorder

NextSeg ==
    \/ start
    \/ callback
    \/ stop
    \/ UtteranceBegin
    \/ AwaitSpeech
    \/ StreamChunk

SpecSeg == InitSeg /\ [][NextSeg]_vars

\* ------------------------------- the capture loop with a cancelling consumer

\* the utterance stream is first iterated inside process_audio, while the
\* input stream is open
Begin == stream /\ UtteranceBegin

\* the consumer of the utterance stream is cancelled: the generator ends;
\* if it was awaiting self._q.get on an empty queue, the executor thread
\* stays blocked in it
cancel ==
    /\ phase \in {"phase1", "phase2"}
    /\ phase' = "ended"
    /\ \E blocked \in (IF q = <<>> /\ orphans < MaxOrphans THEN BOOLEAN ELSE {FALSE}) :
          orphans' = IF blocked THEN orphans + 1 ELSE orphans
    /\ UNCHANGED <<q, stream, thresholds, pre_buffer, waited, streamed,
                   silent_count, got, yielded, frames, turns>>
    /\ UNCHANGED besidesCapture

\* a thread left blocked in self._q.get takes the next item, which nobody
\* receives
orphanGet ==
    /\ orphans > 0
    /\ q # <<>>
    /\ q' = Tail(q)
    /\ orphans' = orphans - 1
    /\ UNCHANGED <<stream, phase, thresholds, pre_buffer, waited, streamed,
                   silent_count, got, yielded, frames, turns>>
    /\ UNCHANGED besidesCapture

InitLoop == InitSeg

NextLoop ==
    \/ start
    \/ callback
    \/ stop
    \/ Begin
    \/ AwaitSpeech
    \/ StreamChunk
    \/ cancel
    \/ orphanGet

SpecLoop == InitLoop /\ [][NextLoop]_vars

\* ------------------------ utterance_stream on a source that never runs dry

\* streamed, kept up to min_speech_chunks: the loop only tests
\* streamed >= min_speech_chunks
Saturated(n) == IF n >= min_speech_chunks THEN min_speech_chunks ELSE n

\* the capture thread delivers a chunk whenever the queue has room
deliver ==
    /\ stream
    /\ Len(q) < MaxQueue
    /\ \E rms \in RmsLevels : q' = Append(q, Frame(1, rms))
    /\ UNCHANGED <<stream, phase, thresholds, pre_buffer, waited, streamed,
                   silent_count, got, yielded, frames, turns>>
    /\ UNCHANGED besidesRecorder

\* phase 1, one iteration, the chunks read and yielded not recorded
AwaitSpeechFlow ==
    /\ phase = "phase1"
    /\ q # <<>>
    /\ q' = Tail(q)
    /\ LET chunk == Head(q)
       IN IF chunk = Sentinel
          THEN /\ phase' = "ended"
               /\ UNCHANGED <<pre_buffer, waited, streamed, silent_count>>
          ELSE /\ waited' = waited + 1
               /\ IF IsSpeech(chunk.rms)
                  THEN /\ pre_buffer' = <<>>
                       /\ streamed' = Len(pre_buffer')
                       /\ silent_count' = 0
                       /\ phase' = "phase2"
                  ELSE /\ pre_buffer' = Buffered(pre_buffer, chunk)
                       /\ phase' = IF waited' >= max_wait THEN "ended" ELSE "phase1"
                       /\ UNCHANGED <<streamed, silent_count>>
    /\ UNCHANGED <<stream, thresholds, got, yielded, frames, turns>>
    /\ UNCHANGED besidesRecorder

\* phase 2, one iteration, the chunks read and yielded not recorded
StreamChunkFlow ==
    /\ phase = "phase2"
    /\ q # <<>>
    /\ q' = Tail(q)
    /\ LET chunk == Head(q)
       IN IF chunk = Sentinel
          THEN /\ phase' = "ended"
               /\ UNCHANGED <<streamed, silent_count>>
          ELSE /\ streamed' = Saturated(streamed + 1)
               /\ silent_count' = NextSilentCount(silent_count, streamed', chunk.rms)
               /\ phase' = IF /\ ~IsSpeech(chunk.rms)
                              /\ streamed' >= min_speech_chunks
                              /\ silent_count' >= silence_chunks
                           THEN "ended" ELSE "phase2"
    /\ UNCHANGED <<stream, thresholds, pre_buffer, waited, got, yielded, frames, turns>>
    /\ UNCHANGED besidesRecorder

\* the utterance stream takes its next chunk
ReadFlow == AwaitSpeechFlow \/ StreamChunkFlow

InitFlow == InitSeg

NextFlow ==
    \/ start
    \/ deliver
    \/ stop
    \/ UtteranceBegin
    \/ AwaitSpeechFlow
    \/ StreamChunkFlow

\* the source keeps delivering while the stream is open, and the consumer
\* keeps reading
SpecFlow == InitFlow /\ [][NextFlow]_vars /\ WF_vars(deliver) /\ WF_vars(ReadFlow)

\* ------------------------------------- TTS backends: synthesize_stream

\* the stop of the range the chunk loop runs over
RangeStop == IF backend = "bhashini" /\ total < 1 THEN 1 ELSE total

\* one iteration of the chunk loop: the next chunk is yielded
SynthNext ==
    /\ ~exhausted
    /\ chunk_index * chunk_size < RangeStop
    /\ LET offset == chunk_index * chunk_size
       IN chunks' = Append(chunks, SynthesisResult(chunk_index, offset + chunk_size >= total))
    /\ chunk_index' = chunk_index + 1
    /\ UNCHANGED <<backend, total, exhausted>>
    /\ UNCHANGED besidesSynth

\* the range is exhausted: the generator returns
SynthEnd ==
    /\ ~exhausted
    /\ chunk_index * chunk_size >= RangeStop
    /\ exhausted' = TRUE
    /\ UNCHANGED <<backend, total, chunk_index, chunks>>
    /\ UNCHANGED besidesSynth

InitSynth ==
    /\ GatewayIdle
    /\ RecorderIdle
    /\ SynthInit
    /\ MessageIdle

NextSynth ==
    \/ SynthNext
    \/ SynthEnd

SpecSynth == InitSynth /\ [][NextSynth]_vars

\* -------------------------------------- the user message of a transcript

\* stub.py:177-186: the content of the user message is built
BuildUserContent ==
    /\ user_content = None
    /\ user_content' = Some(UserContent(transcript))
    /\ UNCHANGED transcript
    /\ UNCHANGED besidesMessage

InitMessage ==
    /\ GatewayIdle
    /\ RecorderIdle
    /\ SynthIdle
    /\ MessageInit

NextMessage == BuildUserContent

SpecMessage == InitMessage /\ [][NextMessage]_vars

\* ---------------------------------------------- vocabulary of the claims

IsSignal(e, ev) == e.turn_signal # None /\ e.turn_signal[1].event = ev

EventKind(e) ==
    IF e.turn_signal # None THEN e.turn_signal[1].event
    ELSE IF e.transcript # None THEN "transcript"
    ELSE IF e.llm_text # None THEN "llm_text"
    ELSE IF e.synthesis_chunk # None THEN "synthesis_chunk"
    ELSE IF e.error # None THEN "error"
    ELSE "empty"

Kinds == [i \in 1..Len(events) |-> EventKind(events[i])]

CountKind(kind) == Cardinality({i \in 1..Len(events) : EventKind(events[i]) = kind})

\* LISTENING transcript* THINKING llm_text? SPEAKING synthesis_chunk* tail
MatchesTurn(k, tail) ==
    \E a \in 2..Len(k), b \in 3..Len(k) :
        /\ k[1] = "LISTENING"
        /\ \A i \in 2..(a - 1) : k[i] = "transcript"
        /\ k[a] = "THINKING"
        /\ a < b /\ b <= a + 2
        /\ \A i \in (a + 1)..(b - 1) : k[i] = "llm_text"
        /\ k[b] = "SPEAKING"
        /\ Len(k) >= b + Len(tail)
        /\ \A i \in (b + 1)..(Len(k) - Len(tail)) : k[i] = "synthesis_chunk"
        /\ SubSeq(k, Len(k) - Len(tail) + 1, Len(k)) = tail

\* the last result with is_final in a stream of STT results
LastFinal(seq) ==
    LET F == {i \in 1..Len(seq) : seq[i].is_final}
    IN IF F = {} THEN None
       ELSE Some(seq[CHOOSE i \in F : \A j \in F : j <= i])

\* the text is empty or consists of spaces only
EmptyOrSpaces(text) == \A i \in 1..Len(text) : text[i] = " "

\* the call was iterated to exhaustion and no capability raised
Completed == pc = "none" /\ outcome \in {"short_stt", "short_llm", "success"}

\* the events yielded by the step, and the TurnSignals among them
Emitted == IF pc = "none" THEN events' ELSE SubSeq(events', Len(events) + 1, Len(events'))
EmittedSignals == SelectSeq(Emitted, LAMBDA e : e.turn_signal # None)

\* the step is a step of process_audio (reset is not)
DuringCall == pc # "none" \/ pc' # "none"

OneSignalNamingNewState ==
    /\ Len(EmittedSignals) = 1
    /\ EmittedSignals[1].turn_signal[1].event = state'

\* ------------------------------------------------------------------ C1

\* C1 as stated: the events of a successful turn are LISTENING,
\* transcripts, THINKING, at most one llm_text, SPEAKING, synthesis chunks,
\* END_OF_TURN and finally a TurnSignal IDLE.
C1_OrderEndsWithIdle ==
    outcome = "success" => MatchesTurn(Kinds, <<"END_OF_TURN", "IDLE">>)

\* C1 as amended: the events of a successful turn are LISTENING,
\* transcripts, THINKING, at most one llm_text, SPEAKING, synthesis chunks
\* and END_OF_TURN, which is the last event; the state is IDLE afterwards
\* but no TurnSignal IDLE is emitted.
C1_OrderEndsWithEndOfTurn ==
    outcome = "success" =>
        /\ MatchesTurn(Kinds, <<"END_OF_TURN">>)
        /\ CountKind("IDLE") = 0
        /\ state = "IDLE"

C1_Witness ==
    /\ outcome = "success"
    /\ CountKind("transcript") = 2
    /\ CountKind("llm_text") = 1
    /\ CountKind("synthesis_chunk") = 1

\* ------------------------------------------------------------------ C2

\* C2: in every event stream of a call, complete or cut short, LISTENING
\* precedes every transcript, THINKING every llm_text and SPEAKING every
\* synthesis_chunk.
C2_SignalPrecedesPayload ==
    \A i \in 1..Len(events) :
        /\ events[i].transcript # None =>
               \E j \in 1..(i - 1) : IsSignal(events[j], "LISTENING")
        /\ events[i].llm_text # None =>
               \E j \in 1..(i - 1) : IsSignal(events[j], "THINKING")
        /\ events[i].synthesis_chunk # None =>
               \E j \in 1..(i - 1) : IsSignal(events[j], "SPEAKING")

C2_Witness ==
    /\ outcome = "abandoned"
    /\ CountKind("transcript") > 0
    /\ CountKind("llm_text") > 0
    /\ CountKind("synthesis_chunk") > 0

\* ------------------------------------------------------------------ C3

\* C3 as stated: every change of the state during process_audio comes with
\* exactly one TurnSignal naming the new state, and no TurnSignal is
\* emitted without a transition to the state it names.
C3_EveryTransitionSignalled ==
    [][DuringCall =>
          /\ state' # state => OneSignalNamingNewState
          /\ EmittedSignals # <<>> => OneSignalNamingNewState]_vars

\* C3 as amended: every change of the state during process_audio, except
\* the return to IDLE after END_OF_TURN on the successful path, comes with
\* exactly one TurnSignal naming the new state, and no TurnSignal is
\* emitted without a transition to the state it names.
C3_TransitionSignalledButLast ==
    [][DuringCall =>
          /\ (state' # state /\ pc # "eot") => OneSignalNamingNewState
          /\ EmittedSignals # <<>> => OneSignalNamingNewState]_vars

C3_Witness ==
    /\ pc = "eot"
    /\ state = "END_OF_TURN"
    /\ IsSignal(events[Len(events)], "END_OF_TURN")
    /\ CountKind("THINKING") = 1

\* ------------------------------------------------------------------ C4

\* C4: when the STT stream ends with no final result, or with a last final
\* result of empty or whitespace-only text, the events are exactly
\* LISTENING, one transcript per STT result, IDLE, and only STT was invoked.
C4_EmptyTranscriptShortCircuit ==
    (Completed /\
     (LastFinal(sttSeen) = None \/ EmptyOrSpaces(LastFinal(sttSeen)[1].text))) =>
        /\ Len(events) = Len(sttSeen) + 2
        /\ IsSignal(events[1], "LISTENING")
        /\ \A i \in 1..Len(sttSeen) : events[i + 1] = TranscriptEvent(sttSeen[i])
        /\ IsSignal(events[Len(events)], "IDLE")
        /\ invoked = <<"stt">>
        /\ llmSeen = <<>> /\ ttsSeen = <<>>

C4_Witness ==
    /\ Completed
    /\ Len(sttSeen) = 2
    /\ LastFinal(sttSeen) # None
    /\ LastFinal(sttSeen)[1].text = <<" ">>
    /\ ~sttSeen[2].is_final

\* ------------------------------------------------------------------ C5

\* C5, for the configurations with max_history_turns >= 1 (the claim covers
\* 0 too): after a completed turn the history holds at most
\* 2*max_history_turns + 1 entries.
C5_HistoryBound ==
    (max_history_turns >= 1 /\ Completed) =>
        Len(history) <= 2 * max_history_turns + 1

\* ------------------------------------------------------------------ C6

\* C6: the history is never empty and its first entry is always the system
\* entry with the configured prompt.
C6_SystemEntryFirst ==
    /\ Len(history) >= 1
    /\ history[1] = SystemEntry

C6_Witness ==
    /\ trimmed
    /\ resets = 1
    /\ calls = 2
    /\ Len(history) > 2

\* ------------------------------------------------------------------ C7

\* C7: when a turn has succeeded (END_OF_TURN is out), the entries it
\* appended are one user entry, then one tool entry per action call, then
\* one assistant entry, and they are the tail of the history.
C7_UserToolsAssistant ==
    pc = "eot" =>
        LET n == Len(appended)
            h == Len(history)
        IN /\ n = actionCalls + 2
           /\ appended[1] = "user"
           /\ \A i \in 2..(n - 1) : appended[i] = "tool"
           /\ appended[n] = "assistant"
           /\ h > n
           /\ \A i \in 1..n : history[h - n + i].role = appended[i]
           /\ history[h - n + 1].content = UserContent(LastFinal(sttSeen)[1])
           /\ Some(history[h].content) \in {events[i].llm_text : i \in 1..Len(events)}

C7_Witness ==
    /\ pc = "eot"
    /\ actionCalls = 1
    /\ trimmed
    /\ max_history_turns = 1

\* ------------------------------------------------------------------ C8

\* C8: a call in which a capability stream raised has emitted exactly one
\* event with its error field populated, and that event is its last.
C8_FailureSurfacesAsErrorEvent ==
    outcome = "raised" =>
        /\ CountKind("error") = 1
        /\ events[Len(events)].error # None

\* ------------------------------------------------------------------ C9

\* C9: after a call in which a capability raised, the state is IDLE, so
\* that the next call begins from IDLE.
C9_IdleAfterFailedTurn ==
    (pc = "none" /\ outcome = "raised") => state = "IDLE"

\* ------------------------------------------------------------------ C10

\* C10: with the LLM that answers with a tool call until the history holds
\* a tool result, a completed turn in which the tool call was emitted has
\* dispatched exactly one action call and emitted exactly one llm_text
\* event, carrying the text of the LLM's second result.
C10_ToolCallThenText ==
    (llm = "toolstub" /\ Completed /\ llmSeen # <<>> /\ llmSeen[1].tool_call # None) =>
        /\ actionCalls = 1
        /\ CountKind("llm_text") = 1
        /\ \E i \in 1..Len(events) : events[i].llm_text = Some(StubText)

\* ------------------------------------------------------------------ C11

\* the step invoked the action callback
CallbackStep == Len(callbackLog') = Len(callbackLog) + 1

\* the step consumed an LLM result
LLMStep == Len(llmSeen') = Len(llmSeen) + 1

\* C11: when the action callback raises, a tool entry holding the JSON
\* error object and the call's id is appended to the history, no event is
\* emitted, and the call goes on consuming the LLM stream.
C11_CallbackErrorBecomesToolResult ==
    [][(CallbackStep /\ callbackLog'[Len(callbackLog')].raised) =>
          /\ Len(history') = Len(history) + 1
          /\ SubSeq(history', 1, Len(history)) = history
          /\ history'[Len(history')].role = "tool"
          /\ history'[Len(history')].content = <<"{\"error\"}">>
          /\ events' = events
          /\ CountKind("error") = 0
          /\ pc' = "llm"
          /\ outcome' = "running"]_vars

C11_Witness ==
    /\ pc = "eot"
    /\ Len(callbackLog) = 1
    /\ callbackLog[1].raised
    /\ Len(llmSeen) = 2
    /\ CountKind("error") = 0

\* ------------------------------------------------------------------ C12

\* C12: a tool call whose arguments are a string that is not valid JSON
\* still invokes the action callback, with an empty argument set; the
\* callback's result becomes the tool entry and the call goes on.
C12_MalformedArgsBecomeEmpty ==
    [][(LLMStep /\ action_callback
        /\ llmSeen'[Len(llmSeen')].tool_call # None
        /\ llmSeen'[Len(llmSeen')].tool_call[1].arguments = ArgsMalformed) =>
          /\ CallbackStep
          /\ callbackLog'[Len(callbackLog')].args = "{}"
          /\ Len(history') = Len(history) + 1
          /\ history'[Len(history')].role = "tool"
          /\ (~callbackLog'[Len(callbackLog')].raised =>
                 history'[Len(history')].content = <<"R">>)
          /\ pc' = "llm"
          /\ outcome' = "running"]_vars

C12_Witness ==
    /\ pc = "eot"
    /\ Len(callbackLog) = 1
    /\ callbackLog[1].args = "{}"
    /\ ~callbackLog[1].raised
    /\ llmSeen[1].tool_call # None
    /\ llmSeen[1].tool_call[1].arguments = ArgsMalformed

\* ------------------------------------------------------------------ C13

\* C13: when the final transcript is usable and the accumulated LLM reply
\* is empty or whitespace-only, the events are LISTENING, the transcripts,
\* THINKING, IDLE, and TTS is not invoked.
C13_EmptyReplyShortCircuit ==
    (Completed /\ invoked # <<"stt">> /\ EmptyOrSpaces(full_response_text)) =>
        /\ Len(events) = Len(sttSeen) + 3
        /\ IsSignal(events[1], "LISTENING")
        /\ \A i \in 1..Len(sttSeen) : events[i + 1] = TranscriptEvent(sttSeen[i])
        /\ IsSignal(events[Len(events) - 1], "THINKING")
        /\ IsSignal(events[Len(events)], "IDLE")
        /\ invoked = <<"stt", "llm">>
        /\ ttsSeen = <<>>
        /\ state = "IDLE"

C13_Witness ==
    /\ Completed
    /\ full_response_text = <<" ">>
    /\ Len(llmSeen) = 2
    /\ CountKind("THINKING") = 1

\* a step that is a call of reset()
ResetStep == resets' = resets + 1

\* C18: reset(), in any state and after any history, leaves exactly the
\* single system entry with the configured prompt, the state IDLE and a
\* turn_id that no earlier uuid4 draw produced; this holds of every reset,
\* so a second reset in a row yields the same single-entry history.
C18_ResetRestoresInitial ==
    [][ResetStep =>
          /\ history' = <<[role |-> "system", content |-> SystemPrompt,
                           tool_call_id |-> None]>>
          /\ state' = "IDLE"
          /\ turn_id' # turn_id
          /\ turn_id' \notin 1..uuids]_vars

\* a call that started on the first turn_id appended to the history and
\* raised, leaving a state other than IDLE; reset was then called twice in
\* a row
C18_Witness ==
    /\ calls = 1
    /\ resets = 2
    /\ outcome = "raised"
    /\ appended # <<>>
    /\ events[1].turn_signal[1].turn_id = 1
    /\ history = <<SystemEntry>>
    /\ state = "IDLE"
    /\ turn_id = 3

\* the turn ids carried by the TurnSignals in a sequence of events
SignalIds(evs) ==
    {evs[i].turn_signal[1].turn_id : i \in {j \in 1..Len(evs) : evs[j].turn_signal # None}}

\* a step that starts the next process_audio call
StartStep == pc = "none" /\ pc' = "stt"

\* C19: TurnSignals emitted by two different process_audio calls never
\* carry the same turn_id: the first signal of a call carries a turn_id
\* that no signal of the call before it carried, whether that call ended
\* with END_OF_TURN or short-circuited to IDLE.
C19_FreshTurnIdPerCall ==
    [][StartStep => SignalIds(events') \cap SignalIds(events) = {}]_vars

\* the fields of a GatewayEvent that are populated (not None)
Populated(e) ==
    {f \in {"transcript", "turn_signal", "synthesis_chunk", "llm_text", "error"} :
        e[f] # <<>>}

\* C20: every GatewayEvent process_audio emits has exactly one of the
\* fields transcript, turn_signal, synthesis_chunk, llm_text, error
\* populated: never zero and never more than one.
C20_ExactlyOneField ==
    \A i \in 1..Len(events) : Cardinality(Populated(events[i])) = 1

\* a successful turn has emitted an event of each of the four kinds
C20_Witness ==
    /\ pc = "eot"
    /\ \E i \in 1..Len(events) : Populated(events[i]) = {"transcript"}
    /\ \E i \in 1..Len(events) : Populated(events[i]) = {"turn_signal"}
    /\ \E i \in 1..Len(events) : Populated(events[i]) = {"synthesis_chunk"}
    /\ \E i \in 1..Len(events) : Populated(events[i]) = {"llm_text"}

\* ------------------------------ vocabulary of the claims on the Segmenter

\* the frames the utterance stream has read, the sentinel left out
Heard == SelectSeq(got, LAMBDA c : c # Sentinel)

Low(c) == c.rms <= SILENCE_THRESHOLD

\* some frame read so far exceeds the silence threshold
HasOnset == \E i \in 1..Len(Heard) : ~Low(Heard[i])

\* k, the first frame whose RMS exceeds the silence threshold
OnsetIndex == CHOOSE k \in 1..Len(Heard) :
                  ~Low(Heard[k]) /\ \A i \in 1..(k - 1) : Low(Heard[i])

\* the frames read in the streaming phase
StreamedFrames == SubSeq(Heard, OnsetIndex + 1, Len(Heard))

\* the utterance stream is not suspended in either phase
Terminated == phase \notin {"phase1", "phase2"}

SourceClosed == got # <<>> /\ got[Len(got)] = Sentinel

MaxOf(a, b) == IF a >= b THEN a ELSE b

\* C14: if every frame received during the full max-wait window has RMS at
\* or below the silence threshold, the utterance stream has terminated on
\* the last of them, having yielded zero frames.
C14_SilentWindowYieldsNothing ==
    (/\ Len(got) >= max_wait
     /\ \A i \in 1..max_wait : got[i] # Sentinel /\ got[i].rms <= SILENCE_THRESHOLD)
    => /\ Terminated
       /\ Len(got) = max_wait
       /\ yielded = <<>>

\* the longest window of frames at the threshold has been read while later
\* frames wait in the queue
C14_Witness ==
    /\ phase = "ended"
    /\ max_wait = MaxWait
    /\ Len(got) = max_wait
    /\ \A i \in 1..max_wait : got[i] # Sentinel /\ got[i].rms = SILENCE_THRESHOLD
    /\ q # <<>>
    /\ yielded = <<>>

EndsAt(P, e) ==
    /\ e - silence_chunks + 1 >= MaxOf(1, min_speech_chunks)
    /\ \A j \in (e - silence_chunks + 1)..e : Low(P[j])

\* C16: in the streaming phase, unless the source closes, the utterance
\* ends exactly when the consecutive low-RMS frames, counted only once
\* min_speech_chunks frames have streamed, number silence_chunks: not
\* before, and not later.
C16_TrailingSilenceEndsUtterance ==
    HasOnset =>
        LET P == StreamedFrames
        IN /\ \A e \in 1..(Len(P) - 1) : ~EndsAt(P, e)
           /\ ~SourceClosed => (Terminated <=> (Len(P) >= 1 /\ EndsAt(P, Len(P))))

\* an utterance ended by trailing silence after a low frame before the
\* minimum, and a counted low frame whose count a later loud frame reset
C16_Witness ==
    /\ phase = "ended"
    /\ HasOnset
    /\ ~SourceClosed
    /\ silence_chunks = 2
    /\ min_speech_chunks = 2
    /\ LET P == StreamedFrames
       IN /\ Low(P[1])
          /\ \E i, j \in 1..Len(P) :
                i >= min_speech_chunks /\ i < j /\ Low(P[i]) /\ ~Low(P[j])

\* a step that stops the capture
StopStep == stream /\ ~stream'

\* a step in which the utterance stream reads the sentinel
SentinelStep == Len(got') = Len(got) + 1 /\ got'[Len(got')] = Sentinel

\* C17: stopping capture enqueues the sentinel; on reading it the
\* utterance stream terminates in either phase: in phase 1 with zero frames
\* yielded, in phase 2 with the frames already yielded and no further one.
C17_SentinelTerminates ==
    [][/\ StopStep => q' = Append(q, Sentinel)
       /\ SentinelStep =>
            /\ phase \in {"phase1", "phase2"}
            /\ phase' = "ended"
            /\ yielded' = yielded
            /\ phase = "phase1" => yielded' = <<>>]_vars

\* capture was stopped in the streaming phase: a truncated utterance
C17_Witness ==
    /\ phase = "ended"
    /\ ~stream
    /\ SourceClosed
    /\ Len(yielded) >= 2
    /\ q = <<>>

\* C21: if a capability stream stalls, a per-receive timeout ends the turn
\* with an error event: a call suspended on a stalled stream is eventually
\* over, with an error event emitted.
C21_StallEndsWithError ==
    (pc = "stalled") ~> (pc = "none" /\ CountKind("error") >= 1)

\* C22: within one call each capability is invoked at most once and in
\* the order STT, LLM, TTS; a call in which a capability raised is over;
\* the LLM is invoked only after a non-empty final transcript, TTS only
\* after a non-empty reply.
C22_EachCapabilityOnceInOrder ==
    /\ \E n \in 0..3 : invoked = SubSeq(<<"stt", "llm", "tts">>, 1, n)
    /\ outcome = "raised" => pc = "none"
    /\ (\E i \in 1..Len(invoked) : invoked[i] = "llm") =>
            /\ LastFinal(sttSeen) # None
            /\ ~EmptyOrSpaces(LastFinal(sttSeen)[1].text)
    /\ (\E i \in 1..Len(invoked) : invoked[i] = "tts") =>
            ~EmptyOrSpaces(full_response_text)

\* a second call whose TTS stream raised, after all three capabilities
\* were invoked
C22_Witness ==
    /\ calls = 2
    /\ pc = "none"
    /\ outcome = "raised"
    /\ invoked = <<"stt", "llm", "tts">>

\* C23: for every audio length, zero included, the chunk stream of a TTS
\* backend has chunk_index 0, 1, 2, ... and exactly one chunk with
\* is_final, which is its last element.
C23_ChunksEndWithOneFinal ==
    exhausted =>
        /\ Len(chunks) >= 1
        /\ \A i \in 1..Len(chunks) :
              /\ chunks[i].chunk_index = i - 1
              /\ chunks[i].is_final <=> i = Len(chunks)

\* the code-point slice text[start_char:end_char] of every span, quoted
\* and joined as the code-switch annotation lists them
RECURSIVE SliceList(_, _)
SliceList(text, spans) ==
    IF spans = <<>> THEN <<>>
    ELSE <<"'">> \o SubSeq(text, Head(spans).start_char + 1, Head(spans).end_char)
         \o <<"' (", Head(spans).language_bcp47, ")">>
         \o (IF Tail(spans) = <<>> THEN <<>> ELSE <<", ">> \o SliceList(text, Tail(spans)))

\* every span of the transcript lies within its text
SpansWithinText ==
    \A i \in 1..Len(transcript.code_switch_spans) :
        LET sp == transcript.code_switch_spans[i]
        IN 0 <= sp.start_char /\ sp.start_char < sp.end_char
           /\ sp.end_char <= Len(transcript.text)

\* C24: for spans with 0 <= start_char < end_char <= len(text), the
\* substrings quoted in the code-switch annotation of the user message are
\* exactly the code-point slices text[start_char:end_char] of the
\* transcript, whatever the characters encode to, and also when a
\* transliteration annotation precedes the code-switch annotation.
C24_QuotedSpanIsCodePointSlice ==
    (user_content # None /\ SpansWithinText /\ transcript.code_switch_spans # <<>>) =>
        user_content[1] =
            transcript.text
            \o (IF transcript.text_roman # <<>>
                THEN <<"\n[Transliteration: ">> \o transcript.text_roman \o <<"]">>
                ELSE <<>>)
            \o <<"\n[Code-switch: ">>
            \o SliceList(transcript.text, transcript.code_switch_spans)
            \o <<"]">>

\* a message was built for a text mixing one-byte and three-byte code
\* points, with a transliteration and two spans behind a three-byte one
C24_Witness ==
    /\ user_content # None
    /\ transcript.text = <<"M", "a", "M">>
    /\ transcript.text_roman # <<>>
    /\ transcript.code_switch_spans =
           <<CodeSwitchSpan(1, 2, "en"), CodeSwitchSpan(1, 3, "en")>>
    /\ SpansWithinText

\* the arguments a capability was called with in this call
ArgsOf(cap) == SelectSeq(args, LAMBDA a : a.cap = cap)

\* the final transcript's detected language, or else the first hint
DetectedOrFirstHint ==
    IF LastFinal(sttSeen)[1].language_bcp47 # ""
    THEN LastFinal(sttSeen)[1].language_bcp47 ELSE FirstHint

\* C25: the language passed to the LLM and to TTS is the final
\* transcript's detected language when there is one, otherwise the first
\* configured language hint, and it is the same for both calls.
C25_ResponseLanguage ==
    /\ \A i \in 1..Len(args) :
          args[i].cap \in {"llm", "tts"} => args[i].language = DetectedOrFirstHint
    /\ \A i, j \in 1..Len(args) :
          (args[i].cap = "llm" /\ args[j].cap = "tts") => args[i].language = args[j].language

\* a turn reached TTS on the first hint, after one that reached it on the
\* detected language
C25_Witness ==
    /\ calls = 2
    /\ Len(ArgsOf("llm")) = 1
    /\ Len(ArgsOf("tts")) = 1
    /\ LastFinal(sttSeen)[1].language_bcp47 = ""
    /\ ArgsOf("tts")[1].language = FirstHint
    /\ \E i \in 1..Len(history) : history[i].content = <<"a">>

\* the step appended a user entry to the history
UserAppendStep ==
    /\ Len(appended') = Len(appended) + 1
    /\ appended'[Len(appended')] = "user"

\* C26: for max_history_turns >= 1, right after the user entry is
\* appended, a history of more than 2*max_history_turns + 1 entries becomes
\* the system entry followed by the most recent 2*max_history_turns
\* entries in their order; otherwise the append leaves the earlier entries
\* as they were.
C26_TrimAfterUserAppend ==
    [][(UserAppendStep /\ max_history_turns >= 1) =>
          LET n == Len(history) + 1
              keep == 2 * max_history_turns
          IN /\ history'[Len(history')].role = "user"
             /\ IF n > keep + 1
                THEN /\ Len(history') = keep + 1
                     /\ history'[1] = [role |-> "system", content |-> SystemPrompt,
                                       tool_call_id |-> None]
                     /\ \A i \in 2..keep :
                           history'[i] = history[n - keep + i - 1]
                ELSE /\ Len(history') = n
                     /\ SubSeq(history', 1, n - 1) = history]_vars

\* a second turn whose user entry pushed the first turn's user entry out
C26_Witness ==
    /\ pc = "llm"
    /\ calls = 2
    /\ trimmed
    /\ max_history_turns = 1
    /\ Len(history) = 3
    /\ history[2].role = "assistant"
    /\ history[3].role = "user"

\* the LLM result the step read
ReadResult == llmSeen'[Len(llmSeen')]

\* the arguments of a tool call as the callback is to get them: a dict as
\* it is, a JSON string decoded
Decoded(arguments) == arguments.json

\* the step made one callback invocation for the tool call it read and
\* appended one tool entry with the call's id and the callback's result
DispatchedOnce ==
    LET call == ReadResult.tool_call[1]
        made == callbackLog'[Len(callbackLog')]
        entry == history'[Len(history')]
    IN /\ Len(callbackLog') = Len(callbackLog) + 1
       /\ SubSeq(callbackLog', 1, Len(callbackLog)) = callbackLog
       /\ made.name = call.name
       /\ call.arguments # ArgsMalformed => made.args = Decoded(call.arguments)
       /\ Len(history') = Len(history) + 1
       /\ SubSeq(history', 1, Len(history)) = history
       /\ entry.role = "tool"
       /\ entry.tool_call_id = (IF call.id = None THEN <<"">> ELSE call.id)
       /\ ~made.raised => entry.content = <<"R">>
       /\ \A i \in 1..Len(appended') : appended'[i] # "assistant"

\* C27: each LLM result carrying a tool_call causes exactly one callback
\* invocation with the call's name and arguments and exactly one tool
\* entry with the callback's result and the call's id, appended before the
\* assistant entry of the turn.
C27_ToolCallAlwaysDispatched ==
    [][(LLMStep /\ ReadResult.tool_call # None) => DispatchedOnce]_vars

\* C27, with an action callback configured; without one a tool call
\* causes no invocation and no history entry.
C27_ToolCallDispatchedIfCallback ==
    [][LLMStep =>
          IF ReadResult.tool_call # None /\ action_callback
          THEN DispatchedOnce
          ELSE callbackLog' = callbackLog /\ history' = history]_vars

\* a turn dispatched a tool call with a JSON string and went on to the
\* assistant entry
C27_Witness ==
    /\ pc = "llm_text"
    /\ Len(llmSeen) = 2
    /\ llmSeen[1].tool_call = <<CallWithString>>
    /\ callbackLog = <<[name |-> "n1", args |-> "D", raised |-> FALSE]>>
    /\ appended = <<"user", "tool", "assistant">>
    /\ history[Len(history) - 1].tool_call_id = <<"c1">>

\* the in-order concatenation of the text_delta of the results
RECURSIVE AllDeltas(_)
AllDeltas(results) ==
    IF results = <<>> THEN <<>>
    ELSE AllDeltas(SubSeq(results, 1, Len(results) - 1)) \o results[Len(results)].text_delta

\* the texts of the llm_text events of the call
LlmTexts ==
    LET E == SelectSeq(events, LAMBDA e : e.llm_text # None)
    IN [i \in 1..Len(E) |-> E[i].llm_text[1]]

\* the llm_text event, the assistant entry and the text handed to TTS
\* hold the same text
ReplyIs(text) ==
    /\ LlmTexts = <<text>>
    /\ history[Len(history)].role = "assistant" => history[Len(history)].content = text
    /\ \A i \in 1..Len(ArgsOf("tts")) : ArgsOf("tts")[i].text = text

\* C28: the reply of a turn (llm_text event, assistant entry, text handed
\* to TTS) is the concatenation, in stream order, of the text_delta of all
\* results of the LLM stream.
C28_ReplyIsAllDeltas ==
    (pc \in {"llm_text", "tts"} \/ (pc = "none" /\ outcome = "success"))
        => ReplyIs(AllDeltas(llmSeen))

\* C29: the transcript used for the turn (user entry, language of the LLM
\* call) is the last final result of the STT stream, whatever follows it.
C29_LastFinalIsUsed ==
    [][UserAppendStep =>
          /\ LastFinal(sttSeen) # None
          /\ history'[Len(history')] = [role |-> "user",
                                        content |-> UserContent(LastFinal(sttSeen)[1]),
                                        tool_call_id |-> None]
          /\ args'[Len(args')] = [cap |-> "llm", language |-> DetectedOrFirstHint,
                                  text |-> <<>>]]_vars

\* a stream of two final results: the turn uses the second
C29_Witness ==
    /\ pc = "llm"
    /\ Len(sttSeen) = 2
    /\ sttSeen[1].is_final /\ sttSeen[1].text = <<"a">>
    /\ sttSeen[2].is_final /\ sttSeen[2].text = <<"a", "b">>
    /\ history[Len(history)].role = "user"
    /\ SubSeq(history[Len(history)].content, 1, 2) = <<"a", "b">>
    /\ ArgsOf("llm")[1].language = FirstHint

\* the STT results and the TTS chunks the events of the call carry
ForwardedTranscripts ==
    LET E == SelectSeq(events, LAMBDA e : e.transcript # None)
    IN [i \in 1..Len(E) |-> E[i].transcript[1]]

ForwardedChunks ==
    LET E == SelectSeq(events, LAMBDA e : e.synthesis_chunk # None)
    IN [i \in 1..Len(E) |-> E[i].synthesis_chunk[1]]

EnterStreaming == phase = "phase1" /\ phase' = "phase2"

\* the step streams a frame at or below the threshold
LowFrameStreamed ==
    /\ phase = "phase2"
    /\ Len(yielded') = Len(yielded) + 1
    /\ Low(yielded'[Len(yielded')])

\* C31: on entering the streaming phase the count of streamed frames is
\* the number of frames the pre-roll flush has yielded, so a low frame is
\* counted as trailing silence once the frames yielded since onset,
\* pre-roll included, number at least min_speech_chunks.
C31_StreamedCountsPreRoll ==
    [][/\ EnterStreaming => streamed' = Len(yielded')
       /\ (LowFrameStreamed /\ Len(yielded') >= min_speech_chunks)
             => silent_count' = silent_count + 1]_vars

\* C32: on a source that keeps delivering frames, a running utterance
\* stream terminates.
C32_UtteranceIsFinite == (phase \in {"phase1", "phase2"}) ~> Terminated

\* C33: the frames yielded are one contiguous run of the input frames in
\* arrival order, from frame max(1, k - pre_max + 1), k the onset frame,
\* through the last frame read; nothing is yielded without an onset, and
\* the ring buffer never holds more than pre_max frames.
C33_YieldedIsContiguousRun ==
    /\ Len(pre_buffer) <= pre_max
    /\ \A i \in 1..(Len(yielded) - 1) : yielded[i + 1].n = yielded[i].n + 1
    /\ IF HasOnset
       THEN yielded = SubSeq(Heard, MaxOf(1, OnsetIndex - pre_max + 1), Len(Heard))
       ELSE yielded = <<>>

\* an utterance whose onset came after more quiet frames than the ring
\* buffer holds, ended after further frames
C33_Witness ==
    /\ phase = "ended"
    /\ HasOnset
    /\ pre_max = MaxPre
    /\ OnsetIndex > pre_max
    /\ Len(Heard) > OnsetIndex
    /\ yielded[1] = Heard[OnsetIndex - pre_max + 1]
    /\ yielded[Len(yielded)] = Heard[Len(Heard)]

\* C34: a call that short-circuits to IDLE, on the transcript or on the
\* reply, has appended nothing to the history and trimmed nothing.
C34_ShortCircuitAppendsNothing ==
    (pc = "none" /\ outcome \in {"short_stt", "short_llm"})
        => appended = <<>> /\ ~trimmed

\* C35: all TurnSignals emitted by one process_audio call carry the same
\* turn_id.
C35_OneTurnIdPerCall == Cardinality(SignalIds(events)) <= 1

\* C36: a process_audio call moves the state to LISTENING only from IDLE,
\* whatever became of the calls before it.
C36_ListeningOnlyFromIdle == [][StartStep => state = "IDLE"]_vars

\* C37: after a call iterated to exhaustion without a capability raising,
\* on the successful path and on both short-circuit paths, the state is
\* IDLE.
C37_IdleAfterCompletedCall == Completed => state = "IDLE"

\* a successful call has ended: END_OF_TURN was its last event
C37_Witness ==
    /\ pc = "none"
    /\ outcome = "success"
    /\ EventKind(events[Len(events)]) = "END_OF_TURN"
    /\ state = "IDLE"

\* C38: for every max_history_turns >= 0, the history holds exactly one
\* system entry, at index 0.
C38_OneSystemEntryFirst ==
    /\ history # <<>>
    /\ history[1].role = "system"
    /\ \A i \in 2..Len(history) : history[i].role # "system"

\* the step is a start() of the recorder
RecorderStartStep == turns' = turns + 1

C40_FailureIsNotATranscript ==
    Failed =>
        /\ CountKind("THINKING") = 0
        /\ \A i \in 1..Len(appended) : appended[i] # "user"
        /\ \A i \in 1..Len(invoked) : invoked[i] # "llm"

====
